---- MODULE Spec2Model ----
(***************************************************************************)
(* Model of the NO2 prediction page (src/app.py).                          *)
(*                                                                         *)
(* app.py is a Streamlit script: the framework executes the whole file,    *)
(* top to bottom, once when the page is opened and once more for every     *)
(* user interaction (a changed number_input, a pressed button, a manual    *)
(* rerun).  Widget values survive between runs; the script's own globals   *)
(* (model, scaler, input_df, y_pred, ...) are rebuilt by every run.        *)
(*                                                                         *)
(* Numbers are Python floats (IEEE-754 binary64), with the rounding of     *)
(* every operation.                                                        *)
(***************************************************************************)
EXTENDS Integers, Sequences, FiniteSets, TLC

VARIABLES
    modelFile,   \* what is stored at MODEL_PATH
    scalerFile,  \* what is stored at SCALER_PATH
    lag1,        \* widget state of number_input "NO2 Hari -1" (mol/m2)
    lag2,        \* widget state of number_input "NO2 Hari -2"
    lag3,        \* widget state of number_input "NO2 Hari -3"
    ns,          \* the script's globals as the last run left them
    page,        \* what the last run put on the page
    halted,      \* the last run ended in st.stop()
    pressed,     \* the last run was triggered by the button
    runs,        \* number of script runs so far
    loads,       \* number of joblib.load calls so far, per artifact
    calls,       \* arguments the last run passed to scaler.transform / model.predict
    reqs,        \* one entry per button press: inputs and outcome
    ufn,         \* function exercised on its own ("none" before the call)
    ux,          \* its column-density argument
    uh,          \* its boundary-layer height argument
    uc,          \* its concentration argument, in units of 10^-7 ug/m3
    uret         \* its result

vars == <<modelFile, scalerFile, lag1, lag2, lag3, ns, page, halted, pressed,
          runs, loads, calls, reqs, ufn, ux, uh, uc, uret>>

sessionVars == <<modelFile, scalerFile, lag1, lag2, lag3, ns, page, halted,
                 pressed, runs, loads, calls, reqs>>

unitVars == <<ufn, ux, uh, uc, uret>>

\* ------------------------------------------------------------------ bounds

\* script runs per session
MaxRuns == 5
\* column densities 0 .. MaxK (in 10^-6 mol/m2) tried on the conversion functions
MaxK == 12
\* boundary-layer heights -MaxH/2 .. MaxH/2 (in steps of one half) tried
MaxH == 5
\* concentrations 25 - MaxJ*10^-7 .. 25 + MaxJ*10^-7 tried on the threshold
MaxJ == 2

\* ------------------------------------------- natural numbers of any size
\* TLC's integers have 32 bits; the 53-bit significands of Python's floats and
\* their products are sequences of limbs in base 2^14, least significant first,
\* without leading zero limbs (<<>> is 0).

None == [none |-> TRUE]

Base == 128 * 128

Min(a, b) == IF a < b THEN a ELSE b

Max(a, b) == IF a > b THEN a ELSE b

Abs(i) == IF i < 0 THEN -i ELSE i

First(a) == IF a = <<>> THEN 0 ELSE Head(a)

Rest(a) == IF a = <<>> THEN <<>> ELSE Tail(a)

RECURSIVE BigNorm(_)
BigNorm(a) ==
    IF a = <<>> THEN <<>>
    ELSE IF a[Len(a)] = 0 THEN BigNorm(SubSeq(a, 1, Len(a) - 1))
    ELSE a

RECURSIVE BigFromInt(_)
BigFromInt(i) == IF i = 0 THEN <<>> ELSE <<i % Base>> \o BigFromInt(i \div Base)

\* a * k + c for a limb k >= 1
RECURSIVE MulSmall(_, _, _)
MulSmall(a, k, c) ==
    IF a = <<>> THEN BigFromInt(c)
    ELSE <<(Head(a) * k + c) % Base>> \o MulSmall(Tail(a), k, (Head(a) * k + c) \div Base)

RECURSIVE AddCarry(_, _, _)
AddCarry(a, b, c) ==
    IF a = <<>> /\ b = <<>> THEN BigFromInt(c)
    ELSE <<(First(a) + First(b) + c) % Base>>
            \o AddCarry(Rest(a), Rest(b), (First(a) + First(b) + c) \div Base)

BigAdd(a, b) == AddCarry(a, b, 0)

RECURSIVE SubBorrow(_, _, _)
SubBorrow(a, b, c) ==
    IF a = <<>> THEN <<>>
    ELSE <<(Head(a) - First(b) - c) % Base>>
            \o SubBorrow(Tail(a), Rest(b), IF Head(a) - First(b) - c < 0 THEN 1 ELSE 0)

\* a - b for a >= b
BigSub(a, b) == BigNorm(SubBorrow(a, b, 0))

RECURSIVE CmpFrom(_, _, _)
CmpFrom(a, b, i) ==
    IF i = 0 THEN 0
    ELSE IF a[i] > b[i] THEN 1
    ELSE IF a[i] < b[i] THEN -1
    ELSE CmpFrom(a, b, i - 1)

\* -1, 0, 1 as a < b, a = b, a > b
BigCmp(a, b) ==
    IF Len(a) > Len(b) THEN 1
    ELSE IF Len(a) < Len(b) THEN -1
    ELSE CmpFrom(a, b, Len(a))

ShiftLimb(a) == IF a = <<>> THEN <<>> ELSE <<0>> \o a

RECURSIVE BigMul(_, _)
BigMul(a, b) ==
    IF a = <<>> \/ b = <<>> THEN <<>>
    ELSE BigAdd(IF Head(b) = 0 THEN <<>> ELSE MulSmall(a, Head(b), 0),
                ShiftLimb(BigMul(a, Tail(b))))

RECURSIVE LimbBits(_)
LimbBits(x) == IF x = 0 THEN 0 ELSE 1 + LimbBits(x \div 2)

\* number of binary digits
BitLen(a) == IF a = <<>> THEN 0 ELSE 14 * (Len(a) - 1) + LimbBits(a[Len(a)])

\* a * 2^n
BigShl(a, n) ==
    IF a = <<>> THEN <<>>
    ELSE [i \in 1..(n \div 14) |-> 0] \o MulSmall(a, 2^(n % 14), 0)

ShrBits(a, r) ==
    BigNorm([i \in 1..Len(a) |->
                (a[i] \div 2^r) + (IF i < Len(a) THEN (a[i + 1] % 2^r) * 2^(14 - r) ELSE 0)])

\* a \div 2^n
BigShr(a, n) ==
    IF n \div 14 >= Len(a) THEN <<>>
    ELSE ShrBits(SubSeq(a, n \div 14 + 1, Len(a)), n % 14)

\* binary digit i (0 is the lowest) of a
BigBit(a, i) ==
    IF i < 0 \/ i \div 14 + 1 > Len(a) THEN 0
    ELSE (a[i \div 14 + 1] \div 2^(i % 14)) % 2

\* a % 2^n # 0
LowNonZero(a, n) ==
    \E j \in 1..Len(a) :
        /\ a[j] # 0
        /\ \/ j <= n \div 14
           \/ j = n \div 14 + 1 /\ a[j] % 2^(n % 14) # 0

\* the largest limb q in lo..hi with D * q <= R, given D * lo <= R
RECURSIVE QuotientLimb(_, _, _, _)
QuotientLimb(R, D, lo, hi) ==
    IF lo = hi THEN lo
    ELSE IF BigCmp(MulSmall(D, (lo + hi + 1) \div 2, 0), R) <= 0
    THEN QuotientLimb(R, D, (lo + hi + 1) \div 2, hi)
    ELSE QuotientLimb(R, D, lo, (lo + hi + 1) \div 2 - 1)

\* quotient and remainder of N by D # 0, long division one limb of N at a time
RECURSIVE DivLimbs(_, _, _, _, _)
RECURSIVE DivStep(_, _, _, _, _, _)
DivLimbs(N, D, i, Q, R) ==
    IF i = 0 THEN [q |-> BigNorm(Q), r |-> R]
    ELSE DivStep(N, D, i, Q, BigNorm(<<N[i]>> \o R),
                 QuotientLimb(BigNorm(<<N[i]>> \o R), D, 0, Base - 1))

DivStep(N, D, i, Q, R, q) ==
    DivLimbs(N, D, i - 1, <<q>> \o Q,
             IF q = 0 THEN R ELSE BigSub(R, MulSmall(D, q, 0)))

BigDivMod(N, D) == DivLimbs(N, D, Len(N), <<>>, <<>>)

RECURSIVE BigPow10(_)
BigPow10(k) == IF k <= 0 THEN <<1>> ELSE MulSmall(BigPow10(k - 1), 10, 0)

RECURSIVE ModSmallFrom(_, _, _, _)
ModSmallFrom(a, k, i, rem) ==
    IF i = 0 THEN rem ELSE ModSmallFrom(a, k, i - 1, (rem * Base + a[i]) % k)

RECURSIVE DivSmallFrom(_, _, _, _)
DivSmallFrom(a, k, i, rem) ==
    IF i = 0 THEN <<>>
    ELSE DivSmallFrom(a, k, i - 1, (rem * Base + a[i]) % k) \o <<(rem * Base + a[i]) \div k>>

\* the decimal digits of a, most significant first (<<>> for 0)
RECURSIVE Digits(_)
Digits(a) ==
    IF a = <<>> THEN <<>>
    ELSE Digits(BigNorm(DivSmallFrom(a, 10, Len(a), 0))) \o <<ModSmallFrom(a, 10, Len(a), 0)>>

\* ------------------------------------------------------- Python floats
\* A float is an IEEE-754 binary64 value: s * m * 2^e with sign s, significand
\* m (53 binary digits if normal, fewer at e = -1074 if subnormal, <<>> for
\* zero), or an infinity, or nan.  Every operation rounds its exact result to
\* the nearest float, ties to the even significand.

Finite(s, m, e) == [k |-> "fin", s |-> s, m |-> m, e |-> e]

Infinity(s) == [k |-> "inf", s |-> s, m |-> <<>>, e |-> 0]

NaN == [k |-> "nan", s |-> 1, m |-> <<>>, e |-> 0]

\* the exception float division by zero raises, in place of a value
ZeroDivisionError == [k |-> "ZeroDivisionError", s |-> 1, m |-> <<>>, e |-> 0]

Zero == Finite(1, <<>>, 0)

IsZero(a) == a.k = "fin" /\ a.m = <<>>

Overflowed(s, m, q) == IF BitLen(m) + q > 1024 THEN Infinity(s) ELSE Finite(s, m, q)

\* the float s * m * 2^q of a rounded significand m
Pack(s, m, q) ==
    IF m = <<>> THEN Finite(s, <<>>, 0)
    ELSE IF BitLen(m) > 53 THEN Overflowed(s, BigShr(m, 1), q + 1)
    ELSE Overflowed(s, m, q)

\* N \div 2^sh rounded to nearest, ties to even; sticky: the exact value is above N
RoundShift(N, sh, sticky) ==
    IF BigBit(N, sh - 1) = 1 /\ (sticky \/ LowNonZero(N, sh - 1) \/ BigBit(N, sh) = 1)
    THEN BigAdd(BigShr(N, sh), <<1>>)
    ELSE BigShr(N, sh)

RoundAt(s, N, e, sticky, q) ==
    IF q <= e THEN Pack(s, BigShl(N, e - q), q)
    ELSE Pack(s, RoundShift(N, q - e, sticky), q)

\* the float nearest to s * N * 2^e (to s * (N + f) * 2^e, 0 < f < 1, if sticky)
Round(s, N, e, sticky) ==
    IF N = <<>> THEN Finite(s, <<>>, 0)
    ELSE RoundAt(s, N, e, sticky, Max(BitLen(N) + e - 53, -1074))

RoundQuotient(s, QR, e) == Round(s, QR.q, e, QR.r # <<>>)

RoundDivShifted(s, N, D, e, sh) == RoundQuotient(s, BigDivMod(BigShl(N, sh), D), e - sh)

\* the float nearest to s * (N / D) * 2^e, N # 0, D # 0
RoundDiv(s, N, D, e) == RoundDivShifted(s, N, D, e, Max(0, 56 + BitLen(D) - BitLen(N)))

\* the float a decimal literal n * 10^(-k) denotes
Dec(n, k) ==
    IF n = 0 THEN Zero
    ELSE IF k >= 0
    THEN RoundDiv(IF n < 0 THEN -1 ELSE 1, BigFromInt(Abs(n)), BigPow10(k), 0)
    ELSE Round(IF n < 0 THEN -1 ELSE 1, BigMul(BigFromInt(Abs(n)), BigPow10(-k)), 0, FALSE)

Neg(a) == [a EXCEPT !.s = -a.s]

\* a * b
Mul(a, b) ==
    IF a.k = "ZeroDivisionError" THEN a
    ELSE IF b.k = "ZeroDivisionError" THEN b
    ELSE IF a.k = "nan" \/ b.k = "nan" THEN NaN
    ELSE IF a.k = "inf" \/ b.k = "inf"
    THEN (IF IsZero(a) \/ IsZero(b) THEN NaN ELSE Infinity(a.s * b.s))
    ELSE Round(a.s * b.s, BigMul(a.m, b.m), a.e + b.e, FALSE)

\* a / b
Div(a, b) ==
    IF a.k = "ZeroDivisionError" THEN a
    ELSE IF b.k = "ZeroDivisionError" THEN b
    ELSE IF IsZero(b) THEN ZeroDivisionError
    ELSE IF a.k = "nan" \/ b.k = "nan" THEN NaN
    ELSE IF a.k = "inf" THEN (IF b.k = "inf" THEN NaN ELSE Infinity(a.s * b.s))
    ELSE IF b.k = "inf" \/ IsZero(a) THEN Finite(a.s * b.s, <<>>, 0)
    ELSE RoundDiv(a.s * b.s, a.m, b.m, a.e - b.e)

\* -1, 0, 1 as |a| < |b|, |a| = |b|, |a| > |b| for finite non-zero floats
CmpMagnitude(a, b) ==
    IF BitLen(a.m) + a.e > BitLen(b.m) + b.e THEN 1
    ELSE IF BitLen(a.m) + a.e < BitLen(b.m) + b.e THEN -1
    ELSE BigCmp(a.m, b.m)

\* the sum of the finite floats sa * A * 2^e and sb * B * 2^e
AddAligned(sa, A, sb, B, e) ==
    IF sa = sb THEN Round(sa, BigAdd(A, B), e, FALSE)
    ELSE IF BigCmp(A, B) > 0 THEN Round(sa, BigSub(A, B), e, FALSE)
    ELSE IF BigCmp(A, B) < 0 THEN Round(sb, BigSub(B, A), e, FALSE)
    ELSE Zero

\* the sum of s * A * 2^e and a float of that sign (same) or the other sign
\* and of magnitude below 2^e
AddFar(s, A, e, same) ==
    IF same THEN Round(s, A, e, TRUE) ELSE Round(s, BigSub(A, <<1>>), e, TRUE)

\* a + b for finite non-zero floats, |a| >= |b|
AddFinite(a, b) ==
    IF a.e - (b.e + BitLen(b.m)) >= 3
    THEN AddFar(a.s, BigShl(a.m, 3), a.e - 3, a.s = b.s)
    ELSE AddAligned(a.s, BigShl(a.m, a.e - Min(a.e, b.e)),
                    b.s, BigShl(b.m, b.e - Min(a.e, b.e)), Min(a.e, b.e))

\* a + b
Add(a, b) ==
    IF a.k = "ZeroDivisionError" THEN a
    ELSE IF b.k = "ZeroDivisionError" THEN b
    ELSE IF a.k = "nan" \/ b.k = "nan" THEN NaN
    ELSE IF a.k = "inf" THEN (IF b.k = "inf" /\ b.s # a.s THEN NaN ELSE a)
    ELSE IF b.k = "inf" THEN b
    ELSE IF IsZero(a) THEN (IF IsZero(b) /\ a.s # b.s THEN Zero ELSE b)
    ELSE IF IsZero(b) THEN a
    ELSE IF CmpMagnitude(a, b) >= 0 THEN AddFinite(a, b)
    ELSE AddFinite(b, a)

\* a - b
Sub(a, b) == IF b.k = "ZeroDivisionError" THEN b ELSE Add(a, Neg(b))

\* a position on the number line for the sign alone: -1, 0, 1
Signum(a) == IF IsZero(a) THEN 0 ELSE a.s

\* a <= b
Le(a, b) ==
    IF a.k \notin {"fin", "inf"} \/ b.k \notin {"fin", "inf"} THEN FALSE
    ELSE IF Signum(a) # Signum(b) THEN Signum(a) < Signum(b)
    ELSE IF Signum(a) = 0 THEN TRUE
    ELSE IF a.k = "inf" \/ b.k = "inf"
    THEN (IF a.s > 0 THEN b.k = "inf" ELSE a.k = "inf")
    ELSE IF a.s > 0 THEN CmpMagnitude(a, b) <= 0
    ELSE CmpMagnitude(a, b) >= 0

\* a string of f"{v:.<digits>f}": sign, digits before and after the point
Formatted(sign, text, ds, digits) ==
    [sign |-> sign, text |-> text,
     int  |-> SubSeq(ds, 1, Len(ds) - digits),
     frac |-> SubSeq(ds, Len(ds) - digits + 1, Len(ds))]

\* at least digits + 1 decimal digits
Padded(ds, digits) ==
    [i \in 1..(digits + 1 - Len(ds)) |-> 0] \o ds

\* f"{v:.<digits>f}": the exact value of v rounded to that many decimals, ties to even
FormatFixed(v, digits) ==
    IF v.k # "fin" THEN Formatted(IF v.s < 0 THEN "-" ELSE "", v.k, <<>>, 0)
    ELSE IF v.e >= 0
    THEN Formatted(IF v.s < 0 THEN "-" ELSE "", "",
                   Padded(Digits(BigShl(BigMul(v.m, BigPow10(digits)), v.e)), digits), digits)
    ELSE Formatted(IF v.s < 0 THEN "-" ELSE "", "",
                   Padded(Digits(RoundShift(BigMul(v.m, BigPow10(digits)), -v.e, FALSE)), digits),
                   digits)

\* k * 10^-6 mol/m2, the grid of the number_input widgets (step=0.000001)
Micro(k) == Dec(k, 6)

\* --------------------------------------------------------- unit conversion

MOLAR_MASS_NO2_G_PER_MOL == Dec(460055, 4)

G_TO_UG == 1000000

\* the int G_TO_UG as the float it becomes in float * int
G_TO_UG_FLOAT == Dec(G_TO_UG, 0)

\* default of the parameter ketinggian_m
KETINGGIAN_M_DEFAULT == 100

\* the literal 100.0
KETINGGIAN_M_FLOAT == Dec(KETINGGIAN_M_DEFAULT, 0)

\* factor of the variant below
MG_FLOAT == Dec(1000, 0)

\* variant: only a negative height is guarded
konversi_kolom_ke_volume_negatif(mol_per_m2, ketinggian_m) ==
    IF ~Le(Zero, ketinggian_m) THEN Zero
    ELSE Div(mol_per_m2, ketinggian_m)

konversi_kolom_ke_volume(mol_per_m2, ketinggian_m) ==
    IF Le(ketinggian_m, Zero) THEN Zero
    ELSE Div(mol_per_m2, ketinggian_m)

\* variant: grams taken to milligrams instead of micrograms
konversi_ke_skala_standar_mg(mol_per_m2) ==
    Mul(Mul(konversi_kolom_ke_volume(mol_per_m2, KETINGGIAN_M_FLOAT),
            MOLAR_MASS_NO2_G_PER_MOL),
        MG_FLOAT)

\* ug_per_m3 = g_per_m3 * G_TO_UG, where
\* g_per_m3 = konversi_kolom_ke_volume(mol_per_m2) * MOLAR_MASS_NO2_G_PER_MOL
konversi_ke_skala_standar(mol_per_m2) ==
    Mul(Mul(konversi_kolom_ke_volume(mol_per_m2, KETINGGIAN_M_FLOAT),
            MOLAR_MASS_NO2_G_PER_MOL),
        G_TO_UG_FLOAT)

\* the WHO 2021 24-hour guideline value, ug/m3
BATAS_WHO == 25

\* the int 25 as a point of the float number line (float <= int compares exactly)
BATAS_WHO_FLOAT == Dec(BATAS_WHO, 0)

\* variant: the limit itself already counts as exceeded
KualitasStrict(no2_ug_m3) ==
    IF ~Le(BATAS_WHO_FLOAT, no2_ug_m3) THEN "Baik" ELSE "Buruk"

\* the if/else on no2_ug_m3
Kualitas(no2_ug_m3) ==
    IF Le(no2_ug_m3, BATAS_WHO_FLOAT) THEN "Baik" ELSE "Buruk"

\* ------------------------------------------------------- feature assembly

\* variant: range(1, lag), one name short
fitur_column_pendek(lag) == [i \in 1..(IF lag > 1 THEN lag - 1 ELSE 0) |-> <<"lag", i>>]

\* [f"lag_{i}" for i in range(1, lag + 1)]; f"lag_{i}" is the pair <<"lag", i>>
fitur_column(lag) == [i \in 1..(IF lag > 0 THEN lag ELSE 0) |-> <<"lag", i>>]

\* variant: the columns left in the order of their names
expected_order_naik == << <<"lag", 1>>, <<"lag", 2>>, <<"lag", 3>> >>

expected_order == << <<"lag", 3>>, <<"lag", 2>>, <<"lag", 1>> >>

\* a one-row DataFrame: its column labels and the row's values, in column order
Frame(columns, row) == [columns |-> columns, row |-> row]

Position(columns, name) == CHOOSE i \in 1..Len(columns) : columns[i] = name

\* df[order]: the columns named by order, in that order
Reorder(df, order) ==
    Frame(order, [i \in 1..Len(order) |-> df.row[Position(df.columns, order[i])]])

\* input_df = input_df[expected_order] inside try ... except KeyError
Select(df) ==
    IF \E i \in 1..Len(expected_order) :
          \A j \in 1..Len(df.columns) : df.columns[j] # expected_order[i]
    THEN [status |-> "KeyError", input_df |-> df]
    ELSE [status |-> "ok", input_df |-> Reorder(df, expected_order)]

\* input_df = pd.DataFrame({feature_names[0]: [...], ...}), then the reordering
InputFrame(feature_names, no2_lag_1_input, no2_lag_2_input, no2_lag_3_input) ==
    IF Len(feature_names) < 3
    THEN [status |-> "IndexError", input_df |-> None]
    ELSE Select(Frame(<<feature_names[1], feature_names[2], feature_names[3]>>,
                      <<no2_lag_1_input, no2_lag_2_input, no2_lag_3_input>>))

\* from feature_names = fitur_column(lag) to the reordered input_df.
\* status: "ok"; "KeyError" (caught: st.error, st.stop); "IndexError" (not caught)
AssembleFeatures(lag, no2_lag_1_input, no2_lag_2_input, no2_lag_3_input) ==
    InputFrame(fitur_column(lag), no2_lag_1_input, no2_lag_2_input, no2_lag_3_input)

\* ------------------------------------------------------ loaded artifacts
\* The two pickles are opaque to app.py.  A file is "missing", "corrupt"
\* (joblib.load raises) or holds one of the stand-in objects below.

ScalerKinds == {"identity", "standard", "broken"}

ModelKinds == {"const", "echo", "checked", "broken"}

Returned(v) == [raised |-> FALSE, val |-> v]

Raised == [raised |-> TRUE, val |-> None]

\* per-column parameters of the "standard" scaler, in fitted column order
ScalerMean == <<Micro(17), Micro(14), Micro(12)>>

ScalerScale == Micro(2)

\* scaler.transform(input_df): an unlabeled array of the same shape
ScalerTransform(scaler, df) ==
    CASE scaler = "identity" -> Returned(df.row)
      [] scaler = "standard" ->
            Returned([i \in 1..Len(df.row) |-> Div(Sub(df.row[i], ScalerMean[i]), ScalerScale)])
      [] OTHER -> Raised

\* the prediction of the "const" model, 0.00003 mol/m2
ConstPrediction == Micro(30)

\* largest first-column value the "checked" model accepts
CheckedLimit == Micro(50)

\* model.predict(X_scaled_df): a batch with one prediction per row
ModelPredict(model, X) ==
    CASE model = "const" -> Returned(<<ConstPrediction>>)
      [] model = "echo" -> Returned(<<X.row[1]>>)
      [] model = "checked" ->
            IF Le(X.row[1], CheckedLimit) THEN Returned(<<X.row[1]>>) ELSE Raised
      [] OTHER -> Raised

\* ------------------------------------------------------------ script stages

\* variant: a failed load is reported but the script goes on
LoadArtifactsNoStop(mfile, sfile) ==
    IF mfile = "missing" \/ sfile = "missing"
    THEN [model |-> "unset", scaler |-> "unset", stop |-> TRUE,
          shown |-> {"error_not_found"}, loadModel |-> 0, loadScaler |-> 0]
    ELSE IF mfile = "corrupt"
    THEN [model |-> "unset", scaler |-> "unset", stop |-> FALSE,
          shown |-> {"error_load"}, loadModel |-> 1, loadScaler |-> 0]
    ELSE IF sfile = "corrupt"
    THEN [model |-> mfile, scaler |-> "unset", stop |-> FALSE,
          shown |-> {"error_load"}, loadModel |-> 1, loadScaler |-> 1]
    ELSE [model |-> mfile, scaler |-> sfile, stop |-> FALSE,
          shown |-> {"success_load"}, loadModel |-> 1, loadScaler |-> 1]

\* existence check and the try/except around the two joblib.load calls
LoadArtifacts(mfile, sfile) ==
    IF mfile = "missing" \/ sfile = "missing"
    THEN [model |-> "unset", scaler |-> "unset", stop |-> TRUE,
          shown |-> {"error_not_found"}, loadModel |-> 0, loadScaler |-> 0]
    ELSE IF mfile = "corrupt"
    THEN [model |-> "unset", scaler |-> "unset", stop |-> TRUE,
          shown |-> {"error_load"}, loadModel |-> 1, loadScaler |-> 0]
    ELSE IF sfile = "corrupt"
    THEN [model |-> mfile, scaler |-> "unset", stop |-> TRUE,
          shown |-> {"error_load"}, loadModel |-> 1, loadScaler |-> 1]
    ELSE [model |-> mfile, scaler |-> sfile, stop |-> FALSE,
          shown |-> {"success_load"}, loadModel |-> 1, loadScaler |-> 1]

\* what the try block has computed and shown when it ends or raises
Tried(status, transformArg, predictArg, X_scaled_df, y_pred, shown) ==
    [status |-> status, transformArg |-> transformArg, predictArg |-> predictArg,
     X_scaled_df |-> X_scaled_df, y_pred |-> y_pred, shown |-> shown]

\* y_pred = model.predict(X_scaled_df)[0]
TakeFirst(input_df, X_scaled_df, batch) ==
    IF batch.raised
    THEN Tried("error", input_df, X_scaled_df, X_scaled_df, None, {"scaled_df"})
    ELSE Tried("ok", input_df, X_scaled_df, X_scaled_df, batch.val[1], {"scaled_df"})

\* variant: the model is given the unscaled input_df
PredictUnscaled(input_df, model, X_scaled_df) ==
    IF model = "unset"
    THEN Tried("error", input_df, None, X_scaled_df, None, {"scaled_df"})
    ELSE TakeFirst(input_df, input_df, ModelPredict(model, input_df))

\* st.dataframe(X_scaled_df), then the call of model.predict
PredictScaled(input_df, model, X_scaled_df) ==
    IF model = "unset"
    THEN Tried("error", input_df, None, X_scaled_df, None, {"scaled_df"})
    ELSE TakeFirst(input_df, X_scaled_df, ModelPredict(model, X_scaled_df))

\* X_scaled_df = pd.DataFrame(X_scaled_array, columns=input_df.columns)
Relabel(input_df, model, X_scaled_array) ==
    IF X_scaled_array.raised
    THEN Tried("error", input_df, None, None, None, {})
    ELSE PredictScaled(input_df, model, Frame(input_df.columns, X_scaled_array.val))

\* scaling and prediction inside the button's try block
Predict(input_df, scaler, model) ==
    IF scaler = "unset"
    THEN Tried("error", None, None, None, None, {})
    ELSE Relabel(input_df, model, ScalerTransform(scaler, input_df))

\* the if/else on no2_ug_m3 and what is kept of it
Verdict(metric_std, metric_raw, no2_ug_m3) ==
    [metric_std |-> metric_std, metric_raw |-> metric_raw,
     no2_ug_m3 |-> no2_ug_m3, kualitas |-> Kualitas(no2_ug_m3)]

\* the two st.metric calls and the air-quality verdict shown for a prediction
Present(y_pred) ==
    Verdict(FormatFixed(konversi_ke_skala_standar(y_pred), 1),
            FormatFixed(y_pred, 6),
            konversi_ke_skala_standar(y_pred))

NothingPresented ==
    [metric_std |-> None, metric_raw |-> None, no2_ug_m3 |-> None, kualitas |-> "unset"]

\* variant: the except branch ends the run with st.stop() and keeps the page blank
HandledStop(p) ==
    IF p.status = "ok"
    THEN [status |-> "ok", predict |-> p, out |-> Present(p.y_pred),
          shown |-> p.shown \cup {"success_pred", "metric_std", "metric_raw", "verdict"},
          stop |-> FALSE]
    ELSE [status |-> "error", predict |-> p, out |-> NothingPresented,
          shown |-> p.shown, stop |-> TRUE]

\* how the try ... except Exception of the button ends
Handled(p) ==
    IF p.status = "ok"
    THEN [status |-> "ok", predict |-> p, out |-> Present(p.y_pred),
          shown |-> p.shown \cup {"success_pred", "metric_std", "metric_raw", "verdict"},
          stop |-> FALSE]
    ELSE [status |-> "error", predict |-> p, out |-> NothingPresented,
          shown |-> p.shown \cup {"error_pred"}, stop |-> FALSE]

\* the body of `if st.button(...)`
ButtonHandler(input_df, scaler, model) == Handled(Predict(input_df, scaler, model))

\* ------------------------------------------------------------ one script run

\* number of lag features the script asks fitur_column for
LAG == 3

\* no global of the script is assigned
NoGlobals ==
    [model |-> "unset", scaler |-> "unset", input_df |-> None,
     X_scaled_df |-> None, y_pred |-> None, no2_ug_m3 |-> None, kualitas |-> "unset"]

\* the globals a run starts with: the script is executed in a new namespace
NewNamespace == NoGlobals

NoCalls == [transform |-> None, predict |-> None]

\* what a run leaves: its globals, the page, and what it called
RunResult(nsv, shown, stop, out, callsv, req, L) ==
    [ns |-> nsv, shown |-> shown, halted |-> stop, out |-> out,
     calls |-> callsv, req |-> req, L |-> L]

\* the run from `if st.button(...)` on, the button reporting True
Clicked(v1, v2, v3, L, A, H) ==
    RunResult([NewNamespace EXCEPT !.model = L.model, !.scaler = L.scaler,
                                   !.input_df = A.input_df,
                                   !.X_scaled_df = H.predict.X_scaled_df,
                                   !.y_pred = H.predict.y_pred,
                                   !.no2_ug_m3 = H.out.no2_ug_m3,
                                   !.kualitas = H.out.kualitas],
              {"title", "inputs", "input_df", "button"} \cup L.shown \cup H.shown,
              H.stop, H.out,
              [transform |-> H.predict.transformArg, predict |-> H.predict.predictArg],
              << [in |-> <<v1, v2, v3>>, status |-> H.status,
                  y_pred |-> H.predict.y_pred, out |-> H.out] >>,
              L)

\* the run after the artifacts are loaded (or not) and input_df is built (or not)
Script(clicked, v1, v2, v3, L, A) ==
    IF L.stop
    THEN RunResult([NewNamespace EXCEPT !.model = L.model, !.scaler = L.scaler],
                   {"title"} \cup L.shown, TRUE, NothingPresented, NoCalls, <<>>, L)
    ELSE IF A.status = "KeyError"
    THEN RunResult([NewNamespace EXCEPT !.model = L.model, !.scaler = L.scaler,
                                        !.input_df = A.input_df],
                   {"title", "inputs", "error_columns"} \cup L.shown, TRUE,
                   NothingPresented, NoCalls, <<>>, L)
    ELSE IF A.status = "IndexError"
    THEN RunResult([NewNamespace EXCEPT !.model = L.model, !.scaler = L.scaler],
                   {"title", "inputs", "exception"} \cup L.shown, FALSE,
                   NothingPresented, NoCalls, <<>>, L)
    ELSE IF ~clicked
    THEN RunResult([NewNamespace EXCEPT !.model = L.model, !.scaler = L.scaler,
                                        !.input_df = A.input_df],
                   {"title", "inputs", "input_df", "button"} \cup L.shown, FALSE,
                   NothingPresented, NoCalls, <<>>, L)
    ELSE Clicked(v1, v2, v3, L, A, ButtonHandler(A.input_df, L.scaler, L.model))

\* One execution of app.py, top to bottom, with the button reporting `clicked`
\* and the three number_inputs reporting v1, v2, v3.
ScriptRun(clicked, v1, v2, v3) ==
    Script(clicked, v1, v2, v3,
           LoadArtifacts(modelFile, scalerFile),
           AssembleFeatures(LAG, v1, v2, v3))

\* the state a run leaves behind
Ran(clicked, R) ==
    /\ ns' = R.ns
    /\ page' = [shown |-> R.shown, metric_std |-> R.out.metric_std,
                metric_raw |-> R.out.metric_raw, kualitas |-> R.out.kualitas]
    /\ halted' = R.halted
    /\ pressed' = clicked
    /\ runs' = runs + 1
    /\ loads' = [model |-> loads.model + R.L.loadModel,
                 scaler |-> loads.scaler + R.L.loadScaler]
    /\ calls' = R.calls
    /\ reqs' = reqs \o R.req
    /\ UNCHANGED <<modelFile, scalerFile>>

\* ---------------------------------------------------------------- session

\* values a user types into a number_input (10^-6 mol/m2), besides the defaults
\* a value far above the defaults
LargeInput == Micro(60)

InputValues == {Micro(12), Micro(14), Micro(17), LargeInput}

\* value= of the three number_input widgets
DefaultLag1 == Micro(12)

DefaultLag2 == Micro(14)

DefaultLag3 == Micro(17)

NoPage == [shown |-> {}, metric_std |-> None, metric_raw |-> None, kualitas |-> "unset"]

UnitIdle ==
    /\ ufn = "none"
    /\ ux = Zero
    /\ uh = Zero
    /\ uc = 0
    /\ uret = None

Init ==
    /\ modelFile \in {"missing", "corrupt"} \cup ModelKinds
    /\ scalerFile \in {"missing", "corrupt"} \cup ScalerKinds
    /\ lag1 = DefaultLag1
    /\ lag2 = DefaultLag2
    /\ lag3 = DefaultLag3
    /\ ns = NoGlobals
    /\ page = NoPage
    /\ halted = FALSE
    /\ pressed = FALSE
    /\ runs = 0
    /\ loads = [model |-> 0, scaler |-> 0]
    /\ calls = NoCalls
    /\ reqs = <<>>
    /\ UnitIdle

\* the browser opens the page: the first run
Connect ==
    /\ runs = 0
    /\ Ran(FALSE, ScriptRun(FALSE, lag1, lag2, lag3))
    /\ UNCHANGED <<lag1, lag2, lag3>>
    /\ UNCHANGED unitVars

\* the user changes one number_input: the widget keeps the value, the script reruns
SetInput ==
    /\ runs > 0
    /\ runs < MaxRuns
    /\ "inputs" \in page.shown
    /\ \E w \in 1..3, v \in InputValues :
          /\ v # <<lag1, lag2, lag3>>[w]
          /\ lag1' = IF w = 1 THEN v ELSE lag1
          /\ lag2' = IF w = 2 THEN v ELSE lag2
          /\ lag3' = IF w = 3 THEN v ELSE lag3
          /\ Ran(FALSE, ScriptRun(FALSE, lag1', lag2', lag3'))
    /\ UNCHANGED unitVars

\* the user presses "Jalankan Prediksi": one run in which st.button returns True
Press ==
    /\ runs > 0
    /\ runs < MaxRuns
    /\ "button" \in page.shown
    /\ Ran(TRUE, ScriptRun(TRUE, lag1, lag2, lag3))
    /\ UNCHANGED <<lag1, lag2, lag3>>
    /\ UNCHANGED unitVars

\* the user reruns the script from the page menu
Rerun ==
    /\ runs > 0
    /\ runs < MaxRuns
    /\ Ran(FALSE, ScriptRun(FALSE, lag1, lag2, lag3))
    /\ UNCHANGED <<lag1, lag2, lag3>>
    /\ UNCHANGED unitVars

Next == Connect \/ SetInput \/ Press \/ Rerun

Spec == Init /\ [][Next]_vars

\* ------------------------------------------------- the functions on their own

SessionIdle ==
    /\ modelFile = "missing"
    /\ scalerFile = "missing"
    /\ lag1 = DefaultLag1
    /\ lag2 = DefaultLag2
    /\ lag3 = DefaultLag3
    /\ ns = NoGlobals
    /\ page = NoPage
    /\ halted = FALSE
    /\ pressed = FALSE
    /\ runs = 0
    /\ loads = [model |-> 0, scaler |-> 0]
    /\ calls = NoCalls
    /\ reqs = <<>>

\* the concentration uc * 10^-7 ug/m3
Conc(c) == Dec(c, 7)

\* the column densities k * 10^-6 mol/m2 tried
Densities == [k \in 0..MaxK |-> Micro(k)]

\* the heights i / 2 m tried
Heights == {Dec(5 * i, 1) : i \in (-MaxH)..MaxH}

Range(f) == {f[i] : i \in DOMAIN f}

InitUnit ==
    /\ SessionIdle
    /\ ufn = "none"
    /\ ux \in Range(Densities)
    /\ uh \in Heights
    /\ uc \in {0} \cup {BATAS_WHO * 10000000 + j : j \in (-MaxJ)..MaxJ}
    /\ uret = None

CallVolume ==
    /\ ufn = "none"
    /\ ufn' = "konversi_kolom_ke_volume"
    /\ uret' = konversi_kolom_ke_volume(ux, uh)
    /\ UNCHANGED <<ux, uh, uc>>
    /\ UNCHANGED sessionVars

CallStandar ==
    /\ ufn = "none"
    /\ ufn' = "konversi_ke_skala_standar"
    /\ uret' = konversi_ke_skala_standar(ux)
    /\ UNCHANGED <<ux, uh, uc>>
    /\ UNCHANGED sessionVars

CallKualitas ==
    /\ ufn = "none"
    /\ ufn' = "kualitas"
    /\ uret' = Kualitas(Conc(uc))
    /\ UNCHANGED <<ux, uh, uc>>
    /\ UNCHANGED sessionVars

NextUnit == CallVolume \/ CallStandar \/ CallKualitas

SpecUnit == InitUnit /\ [][NextUnit]_vars

\* ------------------------------------------------------------------ claims

ArtifactsUsable == modelFile \in ModelKinds /\ scalerFile \in ScalerKinds

LastReq == reqs[Len(reqs)]

\* the frame [lag_3, lag_2, lag_1] of the current widget values
OldestFirst ==
    [columns |-> << <<"lag", 3>>, <<"lag", 2>>, <<"lag", 1>> >>,
     row |-> <<lag3, lag2, lag1>>]

\* C1: scaler.transform or model.predict is called only in a run in which both
\* files existed and both loads succeeded; with a missing or unloadable file
\* every run reports an error, halts, renders no input and no button, and no
\* prediction is ever attempted.
C1_PredictOnlyWithBothArtifacts ==
    /\ (calls.transform # None \/ calls.predict # None)
          => /\ ArtifactsUsable
             /\ ns.model = modelFile
             /\ ns.scaler = scalerFile
    /\ (runs > 0 /\ ~ArtifactsUsable)
          => /\ halted
             /\ page.shown \cap {"error_not_found", "error_load"} # {}
             /\ page.shown \cap {"inputs", "button", "success_load"} = {}
             /\ calls = NoCalls
             /\ reqs = <<>>

\* the model was loaded, the scaler failed to load, and the page was run twice
C1_Witness ==
    /\ runs > 1
    /\ modelFile \in ModelKinds
    /\ scalerFile = "corrupt"
    /\ ns.model = modelFile
    /\ ns.scaler = "unset"
    /\ halted
    /\ "error_load" \in page.shown

\* C2: input_df, whenever a run builds it, has exactly the three columns
\* lag_3, lag_2, lag_1 in this order, holding the values entered as lag 3,
\* lag 2 and lag 1; this frame is what scaler.transform is called with.
C2_OldestFirst ==
    /\ (runs > 0 /\ ~halted)
          => /\ ns.input_df = OldestFirst
             /\ Len(ns.input_df.row) = 3
    /\ calls.transform # None => calls.transform = OldestFirst

\* a request whose three inputs differ pairwise reached the scaler
C2_Witness ==
    /\ pressed
    /\ lag1 = DefaultLag1
    /\ lag2 = DefaultLag2
    /\ lag3 = LargeInput
    /\ calls.transform # None
    /\ calls.transform.row = <<LargeInput, DefaultLag2, DefaultLag1>>

\* C3: the threshold check always yields one of the two verdicts, "Baik"
\* exactly for concentrations <= 25 ug/m3 and "Buruk" exactly for those above
\* (uc counts units of 10^-7 ug/m3, so 25 is 250000000).
C3_Threshold ==
    ufn = "kualitas"
        => /\ uret \in {"Baik", "Buruk"}
           /\ (uret = "Baik") <=> (uc <= 250000000)
           /\ (uret = "Buruk") <=> (uc > 250000000)

\* the check was applied to exactly 25 ug/m3
C3_Witness ==
    /\ ufn = "kualitas"
    /\ uc = 250000000
    /\ uret = "Baik"

\* the distance of two floats
Distance(a, b) == [Sub(a, b) EXCEPT !.s = 1]

\* 10^-12, far below the resolution of any displayed value
Tolerance == Dec(1, 12)

\* the literals of the formula (x / 100) * 46.0055 * 1000000
Hundred == Dec(100, 0)

MolarMass == Dec(460055, 4)

Million == Dec(1000000, 0)

\* k * 0.460055, the real value of the formula at k * 10^-6, as the nearest float
ExactScale == [k \in 0..MaxK |-> Dec(k * 460055, 6)]

\* C4: for a column density x, konversi_ke_skala_standar returns the float
\* (x / 100.0) * 46.0055 * 1000000, the operations rounded in that order; for
\* x = k * 10^-6 mol/m2 this is k * 0.460055 ug/m3 up to float rounding (less
\* than 10^-12 away from it), and it is 0 for 0.
C4_StandardScale ==
    ufn = "konversi_ke_skala_standar"
        => /\ uret = Mul(Mul(Div(ux, Hundred), MolarMass), Million)
           /\ \A k \in 0..MaxK :
                ux = Densities[k] => Le(Distance(uret, ExactScale[k]), Tolerance)
           /\ ux = Zero => uret = Zero

\* the default input of lag 1, 0.000012 mol/m2, was converted to 5.52066 ug/m3
C4_Witness ==
    /\ ufn = "konversi_ke_skala_standar"
    /\ ux = DefaultLag1
    /\ uret = Finite(1, <<5993, 5253, 4734, 1413>>, -50)

\* C5: konversi_kolom_ke_volume returns the value 0 for every height <= 0 and
\* the float quotient x / h for every height > 0; it never ends in a division
\* error.
C5_HeightGuard ==
    ufn = "konversi_kolom_ke_volume"
        => /\ uret # ZeroDivisionError
           /\ Le(uh, Zero) => uret = Zero
           /\ ~Le(uh, Zero) => uret = Div(ux, uh)

\* a non-zero column density was converted with the height -2.5
C5_Witness ==
    /\ ufn = "konversi_kolom_ke_volume"
    /\ uh = Dec(-25, 1)
    /\ ux = DefaultLag1
    /\ uret = Zero

\* C6: over a session each artifact is loaded from its file at most once.
C6_LoadedOnce ==
    /\ loads.model <= 1
    /\ loads.scaler <= 1

\* C7: when scaling or prediction raises in a request, the error message is
\* shown, no concentration and no verdict are shown, the run does not halt,
\* and inputs and button are rendered again so that a next request can run.
C7_RequestErrorRecovered ==
    (pressed /\ Len(reqs) > 0 /\ LastReq.status = "error")
        => /\ "error_pred" \in page.shown
           /\ page.shown \cap {"success_pred", "metric_std", "metric_raw", "verdict"} = {}
           /\ page.metric_std = None
           /\ page.metric_raw = None
           /\ page.kualitas = "unset"
           /\ ~halted
           /\ {"inputs", "button"} \subseteq page.shown

\* a request failed and the request after it succeeded
C7_Witness ==
    /\ Len(reqs) >= 2
    /\ reqs[Len(reqs) - 1].status = "error"
    /\ LastReq.status = "ok"
    /\ pressed
    /\ "verdict" \in page.shown

\* the columns input_df is built with for a lag count
FeatureColumns(lag) == {fitur_column(lag)[i] : i \in 1..Min(3, Len(fitur_column(lag)))}

\* the columns lag_3, lag_2, lag_1 line 102 selects
ExpectedColumns == {<<"lag", 1>>, <<"lag", 2>>, <<"lag", 3>>}

Limit == Dec(25, 0)

\* 13.80165 ug/m3 as the nearest float
EndToEndValue == Dec(1380165, 5)

\* C9: in a successful request the scaler is called with [lag_3, lag_2, lag_1],
\* the model with the scaler's output under the same labels in the same order,
\* y_pred is the first element of the model's batch, the concentration is the
\* standard-scale conversion of y_pred, the verdict is the threshold check of
\* that concentration; identity scaler and constant model 0.00003 give the
\* float 13.801649999999999 ug/m3 (13.80165 up to float rounding), shown as
\* "13.8", verdict "Baik".
C9_Pipeline ==
    (pressed /\ Len(reqs) > 0 /\ LastReq.status = "ok")
        => /\ calls.transform = OldestFirst
           /\ calls.predict.columns = calls.transform.columns
           /\ calls.predict.row = ScalerTransform(scalerFile, calls.transform).val
           /\ ns.y_pred = ModelPredict(modelFile, calls.predict).val[1]
           /\ ns.no2_ug_m3 = Mul(Mul(Div(ns.y_pred, Hundred), MolarMass), Million)
           /\ page.metric_std = FormatFixed(ns.no2_ug_m3, 1)
           /\ page.metric_raw = FormatFixed(ns.y_pred, 6)
           /\ page.kualitas = (IF Le(ns.no2_ug_m3, Limit) THEN "Baik" ELSE "Buruk")
           /\ ns.kualitas = page.kualitas
           /\ (scalerFile = "identity" /\ modelFile = "const")
                 => /\ ns.y_pred = ConstPrediction
                    /\ ns.no2_ug_m3 = Finite(1, <<11586, 14758, 10013, 1766>>, -49)
                    /\ Le(Distance(ns.no2_ug_m3, EndToEndValue), Tolerance)
                    /\ page.metric_std = [sign |-> "", text |-> "",
                                          int |-> <<1, 3>>, frac |-> <<8>>]
                    /\ page.kualitas = "Baik"

\* the request of the end-to-end scenario was served
C9_Witness ==
    /\ pressed
    /\ scalerFile = "identity"
    /\ modelFile = "const"
    /\ lag1 = DefaultLag1
    /\ lag2 = DefaultLag2
    /\ lag3 = DefaultLag3
    /\ LastReq.status = "ok"
    /\ page.metric_std = [sign |-> "", text |-> "", int |-> <<1, 3>>, frac |-> <<8>>]
    /\ page.kualitas = "Baik"

====
